---- MODULE Spec2Model ----
(***************************************************************************)
(* A model of the RegulaAI repository:                                      *)
(*   - the chunkers             (main.py, regulaai_rag.py, mainly.py)       *)
(*   - top-k retrieval          (main.py ask_rag, regulaai_rag.py ask)      *)
(*   - the amendment parser     (regulatory_update_tracker.py extract_json) *)
(*   - the amendment applier    (regulatory_update_tracker.py               *)
(*                               apply_amendments)                          *)
(*   - the renderers            (stream.py generate_highlighted_pdf,        *)
(*                               regulatory_update_tracker.py save_pdf)     *)
(*   - the risk heuristic       (stream.py calculate_risk, Risk Dashboard)  *)
(*   - the document loaders     (main.py, regulaai_rag.py, the tracker)     *)
(*   - the dashboard session    (stream.py pages and session state)         *)
(* Strings are sequences of one-character strings.                         *)
(***************************************************************************)
EXTENDS Integers, Sequences, FiniteSets, TLC

VARIABLES
    pc,             \* position of the running operation
    text,           \* chunk_text: the document being chunked
    chunk_size,     \* the configured CHUNK_SIZE
    chunk_overlap,  \* the configured CHUNK_OVERLAP
    chunks,         \* chunk_text: the list being built / returned; the indexed chunks
    i,              \* chunk_text: the loop offset
    chunk_sources,  \* main(): the source name of each indexed chunk
    ids,            \* ask_rag / ask: ids[0], the labels index.search returned
    context,        \* ask_rag / ask: the context assembled for the prompt
    used_sources,   \* ask_rag: the source names of the chunks used
    amendments,     \* apply_amendments: the list of amendments
    next_a,         \* apply_amendments: the place in the list of the loop
    updated,        \* apply_amendments: the working text
    resp,           \* generate_amendments: resp.content, the output of the LLM
    parsed,         \* generate_amendments: what extract_json returned
    current_text,   \* main() of the tracker: the contract as amended so far
    marked,         \* the renderers: the text with markers to draw
    raw_lines,      \* the renderers: text.split("\n")
    line_no,        \* the renderers: the place in raw_lines of the loop
    styled_segments, \* the renderers: the (text, style) segments made so far
    contract_text,  \* the dashboard: st.session_state.contract_text
    risk_score,     \* Risk Dashboard page: the score calculate_risk returned
    risks,          \* Risk Dashboard page: the reasons calculate_risk returned
    risk_data,      \* Risk Dashboard page: the Score column of the risk table
    folder,         \* the loaders: the files of the document folder, or NoFolder
    next_p,         \* the loaders: the place in the folder of the loop
    texts,          \* the loaders: the documents loaded so far (texts / docs)
    sources,        \* main.py load_documents: the names of the files loaded
    updated_contract, \* the dashboard: st.session_state.updated_contract
    prompt_contract,  \* Amendment System page: the contract put in the last prompt
    sent            \* Amendment System page: the last e-mail made, if any

chunkVars == <<text, chunk_size, chunk_overlap, i>>
askVars == <<chunk_sources, ids, context, used_sources>>

amendVars == <<amendments, next_a, updated>>

mainVars == <<resp, parsed, current_text>>

renderVars == <<marked, raw_lines, line_no, styled_segments>>

\* the state of the operations outside the retrieval and amendment core
riskVars == <<risk_score, risks, risk_data>>

loadVars == <<folder, next_p, texts, sources>>

dashVars == <<updated_contract, prompt_contract, sent>>

moreVars == <<renderVars, contract_text, riskVars, loadVars, dashVars>>

vars == <<pc, chunks, chunkVars, askVars, amendVars, mainVars, moreVars>>

\* what each group of operations leaves alone
restOfChunk == <<askVars, amendVars, mainVars, moreVars>>
restOfAsk == <<amendVars, mainVars, moreVars>>
restOfAmend == <<chunks, chunk_size, chunk_overlap, i, askVars, mainVars, moreVars>>
restOfMain == <<chunks, chunk_size, chunk_overlap, i, askVars, moreVars>>
\* the retrieval and amendment core, which the other operations leave alone
coreVars == <<chunks, chunkVars, askVars, amendVars, mainVars>>
restOfRender == <<coreVars, contract_text, riskVars, loadVars, dashVars>>
restOfRisk == <<coreVars, renderVars, loadVars, dashVars>>
restOfLoad == <<coreVars, renderVars, contract_text, riskVars, dashVars>>
restOfDash == <<coreVars, renderVars, loadVars>>

\* the state of the operations that are not running
AskIdle ==
    /\ chunk_sources = <<>>
    /\ ids = <<>>
    /\ context = <<>>
    /\ used_sources = {}

AmendIdle ==
    /\ amendments = <<>>
    /\ next_a = 0
    /\ updated = <<>>

NoValue == [kind |-> "none", src |-> <<>>, items |-> <<>>]

MainIdle ==
    /\ resp = <<>>
    /\ parsed = NoValue
    /\ current_text = <<>>

ChunkIdle ==
    /\ text = <<>>
    /\ chunk_size = 1
    /\ chunk_overlap = 0
    /\ i = 0

RenderIdle ==
    /\ marked = <<>>
    /\ raw_lines = <<>>
    /\ line_no = 0
    /\ styled_segments = <<>>

CoreIdle ==
    /\ chunks = <<>>
    /\ ChunkIdle
    /\ AskIdle
    /\ AmendIdle
    /\ MainIdle

RiskIdle ==
    /\ risk_score = 0
    /\ risks = <<>>
    /\ risk_data = <<>>

LoadIdle ==
    /\ folder = [exists |-> FALSE, files |-> <<>>]
    /\ next_p = 0
    /\ texts = <<>>
    /\ sources = <<>>

NoMail == [to |-> <<>>, body |-> <<>>]

DashIdle ==
    /\ updated_contract = <<>>
    /\ prompt_contract = <<>>
    /\ sent = NoMail

MoreIdle ==
    /\ RenderIdle
    /\ contract_text = <<>>
    /\ RiskIdle
    /\ LoadIdle
    /\ DashIdle

(***************************************************************************)
(* Bounds of the model                                                      *)
(***************************************************************************)
MaxTextLen == 4
MaxChunkSize == 3
\* the most chunks an index holds
MaxIndexed == 5
\* the longest contract text, and the longest list of amendments
MaxDocLen == 3
MaxAmend == 2
\* the longest output of the LLM, in tokens
MaxOut == 5
\* the longest run of the chunking loop the model follows; a run with a
\* positive step appends at most Len(text) chunks, so it never reaches this
MaxIter == MaxTextLen + 2

(***************************************************************************)
(* Program constants                                                        *)
(***************************************************************************)
CHUNK_SIZE == 1000
CHUNK_OVERLAP == 200
TOP_K == 4

Chars == {"a", "b", " "}

Min(a, b) == IF a < b THEN a ELSE b
Max(a, b) == IF a > b THEN a ELSE b

\* all strings over cs of length at most n
StringsUpTo(cs, n) == UNION {[1..k -> cs] : k \in 0..n}

(***************************************************************************)
(* Python slicing s[a:b]: a negative index counts from the end, indices     *)
(* are clamped to 0..len(s), an empty range gives the empty string.         *)
(***************************************************************************)
SliceIndex(s, k) ==
    IF k < 0 THEN Max(Len(s) + k, 0) ELSE Min(k, Len(s))

Slice(s, a, b) == SubSeq(s, SliceIndex(s, a) + 1, SliceIndex(s, b))

(***************************************************************************)
(* main.py chunk_text: the while loop, one action per iteration.            *)
(***************************************************************************)
\* a step that skips past the end of the window just taken
ChunkStepSkipping == chunk_size + chunk_overlap

ChunkStep == chunk_size - chunk_overlap

\* a window one character short
ChunkWindowShort(s, at) == Slice(s, at, at + chunk_size - 1)

ChunkWindow(s, at) == Slice(s, at, at + chunk_size)

ChunkTextCall ==
    /\ pc = "chunk_call"
    /\ pc' = "chunk_loop"
    /\ chunks' = <<>>
    /\ i' = 0
    /\ UNCHANGED <<text, chunk_size, chunk_overlap, restOfChunk>>

ChunkLoop ==
    /\ pc = "chunk_loop"
    /\ i < Len(text)
    /\ Len(chunks) < MaxIter
    /\ chunks' = Append(chunks, ChunkWindow(text, i))
    /\ i' = i + ChunkStep
    /\ UNCHANGED <<pc, text, chunk_size, chunk_overlap, restOfChunk>>

ChunkReturn ==
    /\ pc = "chunk_loop"
    /\ ~(i < Len(text))
    /\ pc' = "chunk_done"
    /\ UNCHANGED <<chunks, chunkVars, restOfChunk>>

(***************************************************************************)
(* regulaai_rag.py chunk_text and the chunking of mainly.py:                *)
(* [text[i:i+size] for i in range(0, len(text), size)]                      *)
(***************************************************************************)
\* range(0, n, size) for size > 0 has ceil(n / size) members
RangeCount(n, size) == (n + size - 1) \div size

RangeChunks(s, size) ==
    [k \in 1..RangeCount(Len(s), size) |->
        Slice(s, (k - 1) * size, (k - 1) * size + size)]

RagChunkText ==
    /\ pc = "chunk_call"
    /\ pc' = "rag_done"
    /\ chunks' = RangeChunks(text, chunk_size)
    /\ UNCHANGED <<chunkVars, restOfChunk>>

\* mainly.py: text = f.read().strip(); text = re.sub(r"\s+", " ", text)
IsSpace(c) == c = " "

\* str.strip(): the text between its first and its last non-space character
Strip(s) ==
    LET solid == {k \in 1..Len(s) : ~IsSpace(s[k])}
    IN  IF solid = {} THEN <<>>
        ELSE SubSeq(s, CHOOSE k \in solid : \A m \in solid : k <= m,
                       CHOOSE k \in solid : \A m \in solid : k >= m)

\* re.sub(r"\s+", " ", s): every run of spaces becomes one space
CollapseSpaces(s) ==
    LET tagged == [k \in 1..Len(s) |-> <<k, s[k]>>]
        Keep(p) == ~(IsSpace(p[2]) /\ p[1] > 1 /\ IsSpace(s[p[1] - 1]))
        kept == SelectSeq(tagged, Keep)
    IN  [k \in 1..Len(kept) |-> kept[k][2]]

MainlyChunk ==
    /\ pc = "chunk_call"
    /\ pc' = "mainly_done"
    /\ text' = CollapseSpaces(Strip(text))
    /\ chunks' = RangeChunks(text', chunk_size)
    /\ UNCHANGED <<chunk_size, chunk_overlap, i, restOfChunk>>

\* the worked example of the specification: a text of 2300 characters
ExampleText == [k \in 1..2300 |-> IF k % 3 = 0 THEN "a" ELSE "b"]

ChunkInit ==
    /\ pc = "chunk_call"
    /\ MoreIdle
    /\ chunks = <<>>
    /\ i = 0
    /\ AskIdle
    /\ AmendIdle
    /\ MainIdle
    /\ \/ /\ text \in StringsUpTo(Chars, MaxTextLen)
          /\ chunk_size \in 1..MaxChunkSize
          /\ chunk_overlap \in 0..MaxChunkSize
       \/ /\ text = ExampleText
          /\ chunk_size = CHUNK_SIZE
          /\ chunk_overlap = CHUNK_OVERLAP

ChunkNext ==
    \/ ChunkTextCall
    \/ ChunkLoop
    \/ ChunkReturn
    \/ RagChunkText
    \/ MainlyChunk

SpecChunk == ChunkInit /\ [][ChunkNext]_vars

(***************************************************************************)
(* Claims about the chunkers                                                *)
(***************************************************************************)
ValidChunking == 0 < chunk_overlap /\ chunk_overlap < chunk_size

\* step = chunk_size - overlap, as the contract of the chunker states it
StatedStep == chunk_size - chunk_overlap

\* chunk k (counted from 1) is the window of the text at (k-1)*step,
\* character by character, cut at the end of the text
IsWindow(c, s, start, size) ==
    /\ Len(c) = Min(size, Len(s) - start)
    /\ \A j \in 1..Len(c) : c[j] = s[start + j]

WindowsOfText ==
    /\ Len(chunks) = RangeCount(Len(text), StatedStep)
    /\ \A k \in 1..Len(chunks) :
          /\ IsWindow(chunks[k], text, (k - 1) * StatedStep, chunk_size)
          /\ chunks[k] # <<>>

ExampleChunks ==
    (Len(text) = 2300 /\ chunk_size = 1000 /\ chunk_overlap = 200) =>
        /\ Len(chunks) = 3
        /\ chunks[1] = SubSeq(text, 1, 1000)
        /\ chunks[2] = SubSeq(text, 801, 1800)
        /\ chunks[3] = SubSeq(text, 1601, 2300)
        /\ Len(chunks[3]) = 700

\* C1 as stated: every chunk is the window at i*step, is non-empty, and every
\* chunk except possibly the last has length chunk_size; the example of 2300
\* characters gives 3 chunks at 0, 800, 1600, the last of length 700.
C1_AsStated ==
    (pc = "chunk_done" /\ ValidChunking) =>
        /\ WindowsOfText
        /\ \A k \in 1..(Len(chunks) - 1) : Len(chunks[k]) = chunk_size
        /\ ExampleChunks

\* C1 (amended): every chunk is the window at i*step cut at the end of the
\* text, so it has length min(chunk_size, len(text) - i*step) and is not
\* empty; a chunk whose window fits in the text has length chunk_size, and
\* every chunk that starts in the last chunk_size characters is shorter
\* (there may be several); the example holds as stated.
C1_Windows ==
    (pc = "chunk_done" /\ ValidChunking) =>
        /\ WindowsOfText
        /\ \A k \in 1..Len(chunks) :
              (Len(chunks[k]) = chunk_size) <=>
                  ((k - 1) * StatedStep + chunk_size <= Len(text))
        /\ ExampleChunks

\* a finished run in which a chunk that is not the last one is short
C1_Witness ==
    /\ pc = "chunk_done"
    /\ ValidChunking
    /\ Len(chunks) >= 3
    /\ \E k \in 1..(Len(chunks) - 1) : Len(chunks[k]) < chunk_size

RECURSIVE Concat(_)
Concat(ss) == IF ss = <<>> THEN <<>> ELSE Head(ss) \o Concat(Tail(ss))

\* the text rebuilt from chunks 1..k, taking from each chunk only the
\* characters after those the earlier chunks covered
RECURSIVE Rebuilt(_, _, _)
Rebuilt(cs, step, k) ==
    IF k = 0 THEN <<>>
    ELSE LET prev == Rebuilt(cs, step, k - 1)
             skip == Max(Len(prev) - (k - 1) * step, 0)
         IN  prev \o SubSeq(cs[k], skip + 1, Len(cs[k]))

NoGap(cs, step) ==
    \A k \in 1..Len(cs) : Len(Rebuilt(cs, step, k - 1)) >= (k - 1) * step

\* C2: the chunks of every chunker cover the text without gaps: the unique
\* spans of the overlapping chunks, and the plain concatenation of the
\* non-overlapping ones, rebuild the text exactly.
C2_Coverage ==
    /\ (pc = "chunk_done" /\ ValidChunking) =>
          /\ NoGap(chunks, StatedStep)
          /\ Rebuilt(chunks, StatedStep, Len(chunks)) = text
    /\ pc \in {"rag_done", "mainly_done"} => Concat(chunks) = text

\* an overlapping run of several chunks has finished
C2_Witness ==
    /\ pc = "chunk_done"
    /\ ValidChunking
    /\ Len(chunks) >= 3
    /\ Len(text) = MaxTextLen

\* C3: chunk_text terminates for every configuration: with a step <= 0 on a
\* non-empty text it ends in a configuration error, and otherwise every turn
\* of the loop moves the offset i forward, towards len(text).
C3_Terminates ==
    [][pc = "chunk_loop" => (pc' \in {"chunk_done", "chunk_error"} \/ i' > i)]_vars

(***************************************************************************)
(* Retrieval: main.py ask_rag and regulaai_rag.py ask.                      *)
(* The index holds one vector per chunk, in the order of `chunks`.          *)
(***************************************************************************)
\* the distances a query can have to an indexed vector
DistLevels == {0, 1, 2}

SourceNames == <<"gdpr.txt", "policy.txt">>

\* how many indexed vectors come before vector j in the order of the search:
\* smaller distance first, equal distances in the order of insertion
Before(dist, j) ==
    Cardinality({m \in DOMAIN dist :
                    dist[m] < dist[j] \/ (dist[m] = dist[j] /\ m < j)})

\* index.search(q_vec, k)[1][0] of a flat index of n vectors: the 0-based
\* labels of the k nearest vectors, nearest first; when the index holds fewer
\* than k vectors the missing labels are -1
IndexSearch(dist, k) ==
    [r \in 1..k |->
        IF r <= Len(dist)
        THEN (CHOOSE j \in DOMAIN dist : Before(dist, j) = r - 1) - 1
        ELSE -1]

\* Python's seq[j]: a negative j counts from the end
InRange(seq, j) == -Len(seq) <= j /\ j < Len(seq)

PyIndex(seq, j) == IF j < 0 THEN seq[Len(seq) + j + 1] ELSE seq[j + 1]

Newline == <<"\n">>

\* main.py ask_rag, lines 103-107: the search, and the empty context
AskRagSearch ==
    /\ pc = "ask_call"
    /\ \E dist \in [1..Len(chunks) -> DistLevels] :
          ids' = IndexSearch(dist, TOP_K)
    /\ context' = <<>>
    /\ used_sources' = {}
    /\ i' = 1
    /\ pc' = "ask_loop"
    /\ UNCHANGED <<chunks, text, chunk_size, chunk_overlap, chunk_sources, restOfAsk>>

\* main.py ask_rag, lines 108-110: one turn of the loop over ids[0]
AskRagLoop ==
    /\ pc = "ask_loop"
    /\ i <= Len(ids)
    /\ IF InRange(chunks, ids[i])
       THEN /\ context' = context \o PyIndex(chunks, ids[i]) \o Newline
            /\ used_sources' =
                  used_sources \cup {PyIndex(chunk_sources, ids[i])}
            /\ i' = i + 1
            /\ pc' = pc
       ELSE /\ pc' = "ask_error"
            /\ UNCHANGED <<context, used_sources, i>>
    /\ UNCHANGED <<chunks, text, chunk_size, chunk_overlap, chunk_sources, ids, restOfAsk>>

AskRagDone ==
    /\ pc = "ask_loop"
    /\ i > Len(ids)
    /\ pc' = "ask_done"
    /\ UNCHANGED <<chunks, chunkVars, askVars, restOfAsk>>

\* "\n".join(parts)
RECURSIVE JoinLines(_)
JoinLines(parts) ==
    IF parts = <<>> THEN <<>>
    ELSE IF Len(parts) = 1 THEN parts[1]
    ELSE parts[1] \o Newline \o JoinLines(Tail(parts))

\* regulaai_rag.py ask, lines 53-55
RagAsk ==
    /\ pc = "ask_call"
    /\ \E dist \in [1..Len(chunks) -> DistLevels] :
          ids' = IndexSearch(dist, TOP_K)
    /\ IF \A r \in 1..TOP_K : InRange(chunks, ids'[r])
       THEN /\ context' = JoinLines([r \in 1..TOP_K |-> PyIndex(chunks, ids'[r])])
            /\ pc' = "rag_ask_done"
       ELSE /\ context' = <<>>
            /\ pc' = "ask_error"
    /\ UNCHANGED <<chunks, chunkVars, chunk_sources, used_sources, restOfAsk>>

\* main(): the chunks of the documents in order, each with its source name;
\* chunk k of the index is told from the others by its length
AskInit ==
    /\ MoreIdle
    /\ pc = "ask_call"
    /\ ChunkIdle
    /\ AmendIdle
    /\ MainIdle
    /\ \E n \in 1..MaxIndexed : \E m \in 1..n :
          /\ chunks = [k \in 1..n |-> [j \in 1..k |-> "a"]]
          /\ chunk_sources =
                [k \in 1..n |-> IF k <= m THEN SourceNames[1] ELSE SourceNames[2]]
    /\ ids = <<>>
    /\ context = <<>>
    /\ used_sources = {}

AskNext ==
    \/ AskRagSearch
    \/ AskRagLoop
    \/ AskRagDone
    \/ RagAsk

SpecAsk == AskInit /\ [][AskNext]_vars

(***************************************************************************)
(* Claims about retrieval                                                   *)
(***************************************************************************)
\* the ids read so far are distinct positions of the index
ValidIds(upto) ==
    /\ \A r \in 1..upto : ids[r] \in 0..(Len(chunks) - 1)
    /\ \A r, q \in 1..upto : ids[r] = ids[q] => r = q

\* C4: k is clamped to the number of indexed items: with n < TOP_K chunks
\* indexed, the search returns n ids, every id is a valid position 0..n-1,
\* no two are equal, and the context is made of exactly those n chunks.
C4_Clamped ==
    (pc \in {"ask_done", "rag_ask_done"} /\ Len(chunks) < TOP_K) =>
        /\ Len(ids) = Len(chunks)
        /\ ValidIds(Len(ids))
        /\ pc = "ask_done" =>
              context = Concat([r \in 1..Len(ids) |-> chunks[ids[r] + 1] \o Newline])
        /\ pc = "rag_ask_done" =>
              context = JoinLines([r \in 1..Len(ids) |-> chunks[ids[r] + 1]])

(***************************************************************************)
(* regulatory_update_tracker.py apply_amendments                            *)
(***************************************************************************)
\* Python's s.find(old, start): the 0-based index of the first occurrence of
\* old in s at or after start, or -1
Find(s, old, start) ==
    LET at == {p \in start..(Len(s) - Len(old)) :
                  SubSeq(s, p + 1, p + Len(old)) = old}
    IN  IF at = {} THEN -1 ELSE CHOOSE p \in at : \A q \in at : p <= q

\* old = "": new goes before every character of s and after the last one
Interleaved(s, new) ==
    [q \in 1..((Len(s) + 1) * Len(new) + Len(s)) |->
        IF (q - 1) % (Len(new) + 1) < Len(new)
        THEN new[((q - 1) % (Len(new) + 1)) + 1]
        ELSE s[((q - 1) \div (Len(new) + 1)) + 1]]

\* the rest of s from start on, every occurrence of old (not empty) replaced
RECURSIVE ReplacedFrom(_, _, _, _)
ReplacedFrom(s, old, new, start) ==
    LET at == Find(s, old, start)
    IN  IF at = -1 THEN Slice(s, start, Len(s))
        ELSE Slice(s, start, at) \o new
                \o ReplacedFrom(s, old, new, at + Len(old))

\* str.replace that stops after the first occurrence
StrReplaceFirst(s, old, new) ==
    LET at == Find(s, old, 0)
    IN  IF at = -1 THEN s
        ELSE Slice(s, 0, at) \o new \o Slice(s, at + Len(old), Len(s))

\* Python's s.replace(old, new): every occurrence of old, found from the left
\* without overlaps, becomes new; an empty old matches before every character
\* and at the end
StrReplace(s, old, new) ==
    IF old = <<>> THEN Interleaved(s, new) ELSE ReplacedFrom(s, old, new, 0)

HL_OPEN == <<"<", "<", "H", "I", "G", "H", "L", "I", "G", "H", "T", ">", ">">>
HL_CLOSE == <<"<", "<", "/", "H", "I", "G", "H", "L", "I", "G", "H", "T", ">", ">">>

\* f"<<HIGHLIGHT>>{new}<</HIGHLIGHT>>"
Highlighted(new) == HL_OPEN \o new \o HL_CLOSE

\* a.get(key, default) of a dict
Get(a, key, default) == IF key \in DOMAIN a THEN a[key] ELSE default

\* the body of the loop without the test of old
AmendOnceUnguarded(t, a) ==
    LET old == Get(a, "old_clause", <<>>)
        new == Get(a, "new_clause", <<>>)
        action == Get(a, "action", "replace")
    IN  IF action = "remove"
        THEN StrReplace(t, old, <<>>)
        ELSE StrReplace(t, old, Highlighted(new))

\* the body of the loop without the markers
AmendOncePlain(t, a) ==
    LET old == Get(a, "old_clause", <<>>)
        new == Get(a, "new_clause", <<>>)
        action == Get(a, "action", "replace")
    IN  IF old = <<>> THEN t
        ELSE IF action = "remove"
             THEN StrReplace(t, old, <<>>)
             ELSE StrReplace(t, old, new)

\* the body of the loop stopping at the first occurrence
AmendOnceFirst(t, a) ==
    LET old == Get(a, "old_clause", <<>>)
        new == Get(a, "new_clause", <<>>)
        action == Get(a, "action", "replace")
    IN  IF old = <<>> THEN t
        ELSE IF action = "remove"
             THEN StrReplaceFirst(t, old, <<>>)
             ELSE StrReplaceFirst(t, old, Highlighted(new))

\* lines 143-156: the body of the loop for one amendment a (a dict), on the
\* working text t
AmendOnce(t, a) ==
    LET old == Get(a, "old_clause", <<>>)
        new == Get(a, "new_clause", <<>>)
        action == Get(a, "action", "replace")
    IN  IF old = <<>> THEN t
        ELSE IF action = "remove"
             THEN StrReplace(t, old, <<>>)
             ELSE StrReplace(t, old, Highlighted(new))

\* line 141: updated = text
ApplyCall ==
    /\ pc = "apply_call"
    /\ updated' = text
    /\ next_a' = 1
    /\ pc' = "apply_loop"
    /\ UNCHANGED <<text, amendments, restOfAmend>>

\* lines 142-156: one turn of the loop; an element that is no dict has no
\* get, and the call ends in an AttributeError
ApplyStep ==
    /\ pc = "apply_loop"
    /\ next_a <= Len(amendments)
    /\ IF amendments[next_a].kind = "dict"
       THEN /\ updated' = AmendOnce(updated, amendments[next_a].rec)
            /\ next_a' = next_a + 1
            /\ pc' = pc
       ELSE /\ pc' = "apply_error"
            /\ UNCHANGED <<updated, next_a>>
    /\ UNCHANGED <<text, amendments, restOfAmend>>

\* line 157: return updated
ApplyReturn ==
    /\ pc = "apply_loop"
    /\ next_a > Len(amendments)
    /\ pc' = "apply_done"
    /\ UNCHANGED <<text, amendVars, restOfAmend>>

DocChars == {"a", "b"}

Dict(r) == [kind |-> "dict", rec |-> r]

\* the amendments the model draws from: replace, remove, no action, another
\* action; old_clause present once or many times, absent, empty, missing,
\* or part of a marker; new_clause present or missing
AmendmentPool ==
    { Dict([old_clause |-> <<"a">>, new_clause |-> <<"b">>, action |-> "replace"]),
      Dict([old_clause |-> <<"a">>, new_clause |-> <<"b">>]),
      Dict([old_clause |-> <<"a">>, action |-> "remove"]),
      Dict([old_clause |-> <<"a", "b">>, new_clause |-> <<"a">>, action |-> "replace"]),
      Dict([old_clause |-> <<"a", "b">>, new_clause |-> <<"a">>, action |-> "remove"]),
      Dict([old_clause |-> <<"b">>, action |-> "replace"]),
      Dict([old_clause |-> <<"b">>, new_clause |-> <<"a", "b">>, action |-> "update"]),
      Dict([old_clause |-> <<>>, new_clause |-> <<"b">>, action |-> "replace"]),
      Dict([old_clause |-> <<>>, new_clause |-> <<"b">>, action |-> "remove"]),
      Dict([new_clause |-> <<"b">>, action |-> "remove"]),
      Dict([new_clause |-> <<"a">>]),
      Dict([old_clause |-> <<">">>, new_clause |-> <<"a">>, action |-> "remove"]) }

AmendInit ==
    /\ pc = "apply_call"
    /\ MoreIdle
    /\ text \in StringsUpTo(DocChars, MaxDocLen)
    /\ amendments \in StringsUpTo(AmendmentPool, MaxAmend)
    /\ next_a = 0
    /\ updated = <<>>
    /\ chunks = <<>>
    /\ chunk_size = 1
    /\ chunk_overlap = 0
    /\ i = 0
    /\ AskIdle
    /\ MainIdle

AmendNext ==
    \/ ApplyCall
    \/ ApplyStep
    \/ ApplyReturn

SpecAmend == AmendInit /\ [][AmendNext]_vars

(***************************************************************************)
(* Claims about apply_amendments                                            *)
(***************************************************************************)
\* old occurs in s at position p
OccursAt(s, old, p) ==
    /\ p + Len(old) - 1 <= Len(s)
    /\ \A j \in 1..Len(old) : s[p + j - 1] = old[j]

Occurs(s, old) == \E p \in 1..Len(s) : OccursAt(s, old, p)

\* the first position at or after from where old occurs in s, or 0
FirstAt(s, old, from) ==
    LET at == {p \in from..Len(s) : OccursAt(s, old, p)}
    IN  IF at = {} THEN 0 ELSE CHOOSE p \in at : \A q \in at : p <= q

\* the occurrences of old in s that a scan from the left finds, none
\* overlapping another: their positions, from position from on
RECURSIVE Found(_, _, _)
Found(s, old, from) ==
    LET p == FirstAt(s, old, from)
    IN  IF p = 0 THEN {} ELSE {p} \cup Found(s, old, p + Len(old))

\* the strings of ss one after the other
RECURSIVE Flat(_)
Flat(ss) ==
    IF Len(ss) = 0 THEN <<>>
    ELSE IF Len(ss) = 1 THEN ss[1]
    ELSE Flat(SubSeq(ss, 1, Len(ss) \div 2))
            \o Flat(SubSeq(ss, (Len(ss) \div 2) + 1, Len(ss)))

\* the literal substitution of old (not empty) by repl in s, character by
\* character: a character where a found occurrence starts gives repl, the
\* other characters of an occurrence give nothing, every other character
\* stays
Substituted(s, old, repl) ==
    LET at == Found(s, old, 1)
    IN  Flat([j \in 1..Len(s) |->
                IF j \in at THEN repl
                ELSE IF \E p \in at : p < j /\ j < p + Len(old) THEN <<>>
                ELSE <<s[j]>>])

\* s with only its first occurrence of old deleted
FirstDeleted(s, old) ==
    LET p == FirstAt(s, old, 1)
    IN  IF p = 0 THEN s
        ELSE SubSeq(s, 1, p - 1) \o SubSeq(s, p + Len(old), Len(s))

OldOf(e) == IF "old_clause" \in DOMAIN e.rec THEN e.rec.old_clause ELSE <<>>
NewOf(e) == IF "new_clause" \in DOMAIN e.rec THEN e.rec.new_clause ELSE <<>>
IsRemove(e) == "action" \in DOMAIN e.rec /\ e.rec.action = "remove"

\* the loop is about to apply amendment e
Applying(e) ==
    /\ pc = "apply_loop"
    /\ next_a <= Len(amendments)
    /\ e = amendments[next_a]

\* C5 as stated: a remove amendment whose old_clause occurs more than once
\* in the working text deletes only the first occurrence.
C5_FirstOnly ==
    [][\A e \in AmendmentPool :
          (Applying(e) /\ IsRemove(e) /\ OldOf(e) # <<>>
              /\ Cardinality(Found(updated, OldOf(e), 1)) > 1)
          => updated' = FirstDeleted(updated, OldOf(e))]_vars

\* C5 (amended): a remove amendment deletes every occurrence of old_clause
\* that a scan of the working text from the left finds (occurrences that do
\* not overlap): the text shrinks by len(old_clause) for each of them.
C5_EveryOccurrence ==
    [][\A e \in AmendmentPool :
          (Applying(e) /\ IsRemove(e) /\ OldOf(e) # <<>>)
          => /\ updated' = Substituted(updated, OldOf(e), <<>>)
             /\ Len(updated') = Len(updated)
                   - Len(OldOf(e)) * Cardinality(Found(updated, OldOf(e), 1))]_vars

\* the first amendment was a remove of a clause that occurred twice or more
C5_Witness ==
    /\ pc = "apply_loop"
    /\ next_a = 2
    /\ IsRemove(amendments[1])
    /\ OldOf(amendments[1]) # <<>>
    /\ Cardinality(Found(text, OldOf(amendments[1]), 1)) > 1
    /\ Len(updated) < Len(text)

\* amendment e has nothing to change in t: its old_clause is empty, missing
\* or no substring of t
Inert(e, t) == OldOf(e) = <<>> \/ ~Occurs(t, OldOf(e))

\* C6: an amendment whose old_clause is empty, missing or not a substring of
\* the working text leaves the working text unchanged and raises no error,
\* whatever its action; a list of only such amendments returns the input.
C6_NoOp ==
    /\ [][\A e \in AmendmentPool :
            (Applying(e) /\ Inert(e, updated))
            => (updated' = updated /\ pc' = "apply_loop" /\ next_a' = next_a + 1)]_vars
    /\ []((pc = "apply_done" /\ \A k \in 1..Len(amendments) : Inert(amendments[k], text))
            => updated = text)

\* a list of two amendments, one with an empty or missing old_clause, one
\* whose old_clause is absent from the text, has been applied to a text
C6_Witness ==
    /\ pc = "apply_done"
    /\ text # <<>>
    /\ Len(amendments) = 2
    /\ \E k \in 1..2 : OldOf(amendments[k]) = <<>>
    /\ \E k \in 1..2 : OldOf(amendments[k]) # <<>> /\ ~Occurs(text, OldOf(amendments[k]))
    /\ \E k \in 1..2 : IsRemove(amendments[k])
    /\ \E k \in 1..2 : ~IsRemove(amendments[k])

\* one step of the fold: remove substitutes old_clause by nothing, replace,
\* no action (and, as the code has it, any other action) by the marked
\* new_clause; an empty or missing old_clause changes nothing
FoldStep(t, e) ==
    IF OldOf(e) = <<>> THEN t
    ELSE IF IsRemove(e) THEN Substituted(t, OldOf(e), <<>>)
    ELSE Substituted(t, OldOf(e), HL_OPEN \o NewOf(e) \o HL_CLOSE)

RECURSIVE FoldLeft(_, _)
FoldLeft(t, es) ==
    IF es = <<>> THEN t ELSE FoldLeft(FoldStep(t, Head(es)), Tail(es))

\* C7: the result of apply_amendments is the fold, left to right over the
\* list, of the literal substitution, each step on the text the earlier
\* steps produced.
C7_Fold ==
    /\ pc = "apply_loop" => updated = FoldLeft(text, SubSeq(amendments, 1, next_a - 1))
    /\ pc = "apply_done" => updated = FoldLeft(text, amendments)

\* two amendments were applied, the second changing text the first inserted,
\* so that the other order, or both on the input text, give another result
C7_Witness ==
    /\ pc = "apply_done"
    /\ Len(amendments) = 2
    /\ ~IsRemove(amendments[1])
    /\ updated # FoldLeft(text, <<amendments[2], amendments[1]>>)
    /\ updated # FoldStep(text, amendments[2])
    /\ updated # FoldStep(text, amendments[1])
    /\ Occurs(updated, HL_OPEN)

(***************************************************************************)
(* regulatory_update_tracker.py extract_json, and the "generate & apply"    *)
(* choice of main().  The output of the LLM is a string of lexemes:         *)
(*   "["  "]"  ","   the brackets and the comma                             *)
(*   " "             white space                                            *)
(*   "w"             a word of prose, such as  Here  or  Thanks             *)
(*   "n"             a scalar literal, such as  null  or  1                 *)
(*   "o"             one amendment record, a JSON object without brackets   *)
(***************************************************************************)
Lexemes == {"[", "]", ",", " ", "w", "n", "o"}

\* the amendment that the lexeme "o" writes down
RecordOfO ==
    [old_clause |-> <<"a">>, new_clause |-> <<"b">>, action |-> "replace"]

ScalarValue == [kind |-> "null", src |-> <<"n">>, items |-> <<>>]
ObjectValue == [kind |-> "dict", src |-> <<"o">>, items |-> <<>>]

\* the list of the values vs, with its text in canonical form
ListValue(vs) ==
    [kind |-> "list",
     src |-> <<"[">>
             \o Flat([k \in 1..Len(vs) |->
                        IF k = 1 THEN vs[k].src ELSE <<",">> \o vs[k].src])
             \o <<"]">>,
     items |-> vs]

EmptyList == ListValue(<<>>)

ParseFail == [ok |-> FALSE, next |-> 0, val |-> NoValue]

ParseOk(next, val) == [ok |-> TRUE, next |-> next, val |-> val]

\* the first position at or after p that holds no white space
SkipSpace(s, p) ==
    LET solid == {q \in p..Len(s) : s[q] # " "}
    IN  IF solid = {} THEN Len(s) + 1
        ELSE CHOOSE q \in solid : \A m \in solid : q <= m

\* the JSON decoder: the value that starts at position p of s, and, inside an
\* array whose earlier elements are acc, the rest of the array from p on
RECURSIVE ParseValue(_, _)
RECURSIVE ParseArray(_, _, _)
ParseValue(s, p) ==
    IF p > Len(s) THEN ParseFail
    ELSE IF s[p] = "n" THEN ParseOk(p + 1, ScalarValue)
    ELSE IF s[p] = "o" THEN ParseOk(p + 1, ObjectValue)
    ELSE IF s[p] = "[" THEN ParseArray(s, SkipSpace(s, p + 1), <<>>)
    ELSE ParseFail

ParseArray(s, p, acc) ==
    IF p > Len(s) THEN ParseFail
    ELSE IF s[p] = "]" /\ acc = <<>> THEN ParseOk(p + 1, EmptyList)
    ELSE LET r == ParseValue(s, p)
             q == SkipSpace(s, r.next)
         IN  IF ~r.ok \/ q > Len(s) THEN ParseFail
             ELSE IF s[q] = "]"
                  THEN ParseOk(q + 1, ListValue(Append(acc, r.val)))
             ELSE IF s[q] = ","
                  THEN ParseArray(s, SkipSpace(s, q + 1), Append(acc, r.val))
             ELSE ParseFail

\* json.loads(s): the whole of s must be one value, white space around it
JsonLoads(s) ==
    LET r == ParseValue(s, SkipSpace(s, 1))
    IN  IF r.ok /\ SkipSpace(s, r.next) > Len(s)
        THEN [ok |-> TRUE, val |-> r.val]
        ELSE [ok |-> FALSE, val |-> NoValue]

NoMatch == [found |-> FALSE, group |-> <<>>]

\* a search for \[.*?\] : from the first "[" to the first "]" after it
RegexSearchLazy(s) ==
    LET opens == {p \in 1..Len(s) : s[p] = "["}
        first == CHOOSE p \in opens : \A q \in opens : p <= q
        closes == {p \in 1..Len(s) : s[p] = "]" /\ p > first}
    IN  IF opens = {} THEN NoMatch
        ELSE IF closes = {} THEN NoMatch
        ELSE [found |-> TRUE,
              group |-> SubSeq(s, first, CHOOSE p \in closes : \A q \in closes : p <= q)]

\* re.search(r"\[.*\]", s, re.S): the leftmost "[" that has a "]" after it,
\* and from there as far as .* can reach, the last "]" of s
RegexSearch(s) ==
    LET opens == {p \in 1..Len(s) :
                    s[p] = "[" /\ \E q \in (p + 1)..Len(s) : s[q] = "]"}
        first == CHOOSE p \in opens : \A q \in opens : p <= q
        closes == {p \in 1..Len(s) : s[p] = "]"}
    IN  IF opens = {} THEN NoMatch
        ELSE [found |-> TRUE,
              group |-> SubSeq(s, first, CHOOSE p \in closes : \A q \in closes : p >= q)]

\* extract_json that gives None when nothing parses
ExtractJsonOrNone(s) ==
    IF JsonLoads(s).ok THEN JsonLoads(s).val
    ELSE IF RegexSearch(s).found /\ JsonLoads(RegexSearch(s).group).ok
         THEN JsonLoads(RegexSearch(s).group).val
         ELSE ScalarValue

\* extract_json without the search for a bracketed part
ExtractJsonStrictOnly(s) ==
    IF JsonLoads(s).ok THEN JsonLoads(s).val ELSE EmptyList

\* extract_json, lines 94-104
ExtractJson(s) ==
    IF JsonLoads(s).ok THEN JsonLoads(s).val
    ELSE IF RegexSearch(s).found
         THEN IF JsonLoads(RegexSearch(s).group).ok
              THEN JsonLoads(RegexSearch(s).group).val
              ELSE EmptyList
         ELSE EmptyList

\* the element of a list as apply_amendments meets it
Element(v) ==
    IF v.kind = "dict"
    THEN [kind |-> "dict", rec |-> IF v.src = <<"o">> THEN RecordOfO ELSE <<>>]
    ELSE [kind |-> v.kind, rec |-> <<>>]

\* what "for a in amendments" goes through: the items of a list, the keys
\* (strings) of a dict
Iterable(v) == v.kind \in {"list", "dict"}

Elements(v) ==
    IF v.kind = "list" THEN [k \in 1..Len(v.items) |-> Element(v.items[k])]
    ELSE <<[kind |-> "str", rec |-> <<>>]>>

Outputs == StringsUpTo(Lexemes, MaxOut)

\* the contract main() loaded: extract_text(load_docs(DOCS_PATH))
Contract == <<"a", "b", "a">>

\* main(), choice "2", line 238: generate_amendments, lines 133-134
MainGenerate ==
    /\ pc = "main_menu"
    /\ \E out \in Outputs :
          /\ resp' = out
          /\ parsed' = ExtractJson(out)
    /\ pc' = "main_generated"
    /\ UNCHANGED <<current_text, text, amendVars, restOfMain>>

\* main(), line 239: the call apply_amendments(current_text, amendments);
\* a value that cannot be iterated ends the call in a TypeError
MainApply ==
    /\ pc = "main_generated"
    /\ IF Iterable(parsed)
       THEN /\ text' = current_text
            /\ amendments' = Elements(parsed)
            /\ pc' = "apply_call"
       ELSE /\ pc' = "apply_error"
            /\ UNCHANGED <<text, amendments>>
    /\ UNCHANGED <<next_a, updated, mainVars, restOfMain>>

\* main(), line 239: current_text = the text apply_amendments returned
MainAssign ==
    /\ pc = "apply_done"
    /\ current_text' = updated
    /\ pc' = "main_done"
    /\ UNCHANGED <<resp, parsed, text, amendVars, restOfMain>>

MainInit ==
    /\ pc = "main_menu"
    /\ MoreIdle
    /\ current_text = Contract
    /\ resp = <<>>
    /\ parsed = NoValue
    /\ text = <<>>
    /\ AmendIdle
    /\ chunks = <<>>
    /\ chunk_size = 1
    /\ chunk_overlap = 0
    /\ i = 0
    /\ AskIdle

MainNext ==
    \/ MainGenerate
    \/ MainApply
    \/ ApplyCall
    \/ ApplyStep
    \/ ApplyReturn
    \/ MainAssign

SpecMain == MainInit /\ [][MainNext]_vars

(***************************************************************************)
(* Claims about extract_json                                                *)
(***************************************************************************)
Count(s, from, to, c) == Cardinality({q \in from..to : s[q] = c})

\* the first balanced bracketed group of s: from the first "[" to the first
\* position where as many "]" as "[" were met; <<>> when there is none
FirstBalanced(s) ==
    LET opens == {p \in 1..Len(s) : s[p] = "["}
        first == CHOOSE p \in opens : \A q \in opens : p <= q
        ends == {q \in first..Len(s) :
                    Count(s, first, q, "[") = Count(s, first, q, "]")}
    IN  IF opens = {} THEN <<>>
        ELSE IF ends = {} THEN <<>>
        ELSE SubSeq(s, first, CHOOSE q \in ends : \A m \in ends : q <= m)

\* the part of s from its first "[" to its last "]"; <<>> when no "]"
\* comes after the first "["
OuterSpan(s) ==
    LET opens == {p \in 1..Len(s) : s[p] = "["}
        closes == {p \in 1..Len(s) : s[p] = "]"}
        first == CHOOSE p \in opens : \A q \in opens : p <= q
        last == CHOOSE p \in closes : \A q \in closes : p >= q
    IN  IF opens = {} \/ closes = {} THEN <<>>
        ELSE IF last < first THEN <<>>
        ELSE SubSeq(s, first, last)

\* the parse of part, or the empty list when it does not parse
ParseOrEmpty(part) ==
    IF JsonLoads(part).ok THEN JsonLoads(part).val ELSE EmptyList

Generated == pc \in {"main_generated", "apply_call", "apply_loop", "apply_done",
                     "apply_error", "main_done"}

\* C8 as stated: when the strict parse fails, the result is the parse of the
\* first balanced [...] group of the output.
C8_FirstBalanced ==
    (Generated /\ ~JsonLoads(resp).ok) => parsed = ParseOrEmpty(FirstBalanced(resp))

\* C8 (amended): when the strict parse fails, the result is the parse of the
\* span from the first "[" to the last "]" of the output, and the empty list
\* when that span is no JSON; with several bracketed groups that span holds
\* all of them and what lies between.
C8_OuterSpan ==
    (Generated /\ ~JsonLoads(resp).ok) => parsed = ParseOrEmpty(OuterSpan(resp))

\* the output had two bracketed groups, the first one a JSON array of one
\* record, and the result is the empty list
C8_Witness ==
    /\ pc = "main_generated"
    /\ ~JsonLoads(resp).ok
    /\ JsonLoads(FirstBalanced(resp)).ok
    /\ JsonLoads(FirstBalanced(resp)).val.items = <<ObjectValue>>
    /\ Count(resp, 1, Len(resp), "[") = 2
    /\ Count(resp, 1, Len(resp), "]") = 2
    /\ OuterSpan(resp) # FirstBalanced(resp)
    /\ parsed = EmptyList

NoBracket(s) == \A q \in 1..Len(s) : s[q] \notin {"[", "]"}

\* s from position a to position b is a JSON array, written from its "[" to
\* its "]"
IsArrayAt(s, a, b) ==
    /\ s[a] = "["
    /\ s[b] = "]"
    /\ JsonLoads(SubSeq(s, a, b)).ok

\* C9: for a valid JSON array A and a prefix and a suffix without brackets,
\* extract_json(prefix + A + suffix) is the parse of A alone.
C9_Surrounded ==
    Generated =>
        \A a \in 1..Len(resp) : \A b \in a..Len(resp) :
            (/\ IsArrayAt(resp, a, b)
             /\ NoBracket(SubSeq(resp, 1, a - 1))
             /\ NoBracket(SubSeq(resp, b + 1, Len(resp))))
            => parsed = JsonLoads(SubSeq(resp, a, b)).val

\* a word of prose, an array of one record, a word of prose: one amendment
C9_Witness ==
    /\ pc = "main_done"
    /\ \E a \in 2..Len(resp) : \E b \in a..(Len(resp) - 1) :
          /\ IsArrayAt(resp, a, b)
          /\ "w" \in {resp[q] : q \in 1..(a - 1)}
          /\ "w" \in {resp[q] : q \in (b + 1)..Len(resp)}
          /\ NoBracket(SubSeq(resp, 1, a - 1))
          /\ NoBracket(SubSeq(resp, b + 1, Len(resp)))
    /\ parsed.items = <<ObjectValue>>
    /\ current_text # text

\* neither the output nor its bracketed part is JSON
BothFail(s) == ~JsonLoads(s).ok /\ ~JsonLoads(OuterSpan(s)).ok

\* C10: extract_json never raises; when the strict parse and the parse of the
\* bracketed part both fail it returns the empty list, and generating and
\* applying then ends without an error and leaves the working text as it was.
C10_EmptyOnFailure ==
    (Generated /\ BothFail(resp)) =>
        /\ parsed = EmptyList
        /\ pc # "apply_error"
        /\ pc = "main_done" => current_text = text

\* a round has ended on an output with prose and brackets that is no JSON
C10_Witness ==
    /\ pc = "main_done"
    /\ BothFail(resp)
    /\ ~NoBracket(resp)
    /\ "o" \in {resp[q] : q \in 1..Len(resp)}
    /\ current_text = text
    /\ current_text # <<>>

(***************************************************************************)
(* The renderers of marked-up text: stream.py generate_highlighted_pdf and  *)
(* regulatory_update_tracker.py save_pdf, up to the (text, style) segments  *)
(* they hand to the drawing code.                                           *)
(***************************************************************************)
\* the longest marked-up text, in pieces (a marker token or a character)
MaxPieces == 4

UP_OPEN == <<"[", "[", "U", "P", "D", "A", "T", "E", "D", "]", "]">>
UP_CLOSE == <<"[", "[", "/", "U", "P", "D", "A", "T", "E", "D", "]", "]">>
RM_OPEN == <<"[", "[", "R", "E", "M", "O", "V", "E", "D", "]", "]">>
RM_CLOSE == <<"[", "[", "/", "R", "E", "M", "O", "V", "E", "D", "]", "]">>

\* the positions of the line breaks of s
Breaks(s) == {p \in 1..Len(s) : s[p] = "\n"}

\* the position of the k-th line break of s; 0 before the first, one past
\* the end after the last
BreakAt(s, k) ==
    IF k = 0 THEN 0
    ELSE IF k > Cardinality(Breaks(s)) THEN Len(s) + 1
    ELSE CHOOSE p \in Breaks(s) : Cardinality({q \in Breaks(s) : q < p}) = k - 1

\* s.split("\n"): the runs between line breaks, empty runs included
SplitLines(s) ==
    [k \in 1..(Cardinality(Breaks(s)) + 1) |->
        SubSeq(s, BreakAt(s, k - 1) + 1, BreakAt(s, k) - 1)]

\* s.startswith(pre), s.endswith(post), sub in s
StartsWith(s, pre) == Len(s) >= Len(pre) /\ SubSeq(s, 1, Len(pre)) = pre
EndsWith(s, post) ==
    Len(s) >= Len(post) /\ SubSeq(s, Len(s) - Len(post) + 1, Len(s)) = post
Contains(s, sub) == Find(s, sub, 0) # -1

\* raw_line.strip() == ""
IsBlank(s) == \A k \in 1..Len(s) : s[k] \in {" ", "\t", "\r", "\n"}

Segment(t, style) == [text |-> t, style |-> style]

\* open.*?close tried at the 0-based place p of s: the end of the match (the
\* first close after the open), or -1
PairEnd(s, p, open, close) ==
    IF Find(s, open, p) # p THEN -1
    ELSE LET q == Find(s, close, p + Len(open))
         IN  IF q = -1 THEN -1 ELSE q + Len(close)

\* \[?[^[]+ tried at the 0-based place p of s: an optional "[", then the
\* longest run, not empty, of characters other than "["; the end of the
\* match, or -1
PlainEnd(s, p) ==
    LET from == IF s[p + 1] = "[" THEN p + 1 ELSE p
        stop == Find(s, <<"[">>, from)
    IN  IF from >= Len(s) \/ s[from + 1] = "[" THEN -1
        ELSE IF stop = -1 THEN Len(s) ELSE stop

\* segment_re tried at p: the alternatives in their order
MatchEnd(s, p) ==
    IF PairEnd(s, p, UP_OPEN, UP_CLOSE) # -1 THEN PairEnd(s, p, UP_OPEN, UP_CLOSE)
    ELSE IF PairEnd(s, p, RM_OPEN, RM_CLOSE) # -1 THEN PairEnd(s, p, RM_OPEN, RM_CLOSE)
    ELSE PlainEnd(s, p)

\* segment_re.findall(s) from the place p on: the matches from the left, a
\* place where nothing matches is passed over
RECURSIVE FindAll(_, _)
FindAll(s, p) ==
    IF p >= Len(s) THEN <<>>
    ELSE IF MatchEnd(s, p) = -1 THEN FindAll(s, p + 1)
    ELSE <<SubSeq(s, p + 1, MatchEnd(s, p))>> \o FindAll(s, MatchEnd(s, p))

\* stream.py lines 210-219: the style of one match
Styled(seg0) ==
    LET seg == StrReplace(seg0, <<"\r">>, <<>>)
    IN  IF StartsWith(seg, UP_OPEN) /\ EndsWith(seg, UP_CLOSE)
        THEN Segment(Slice(seg, Len(UP_OPEN), 0 - Len(UP_CLOSE)), "updated")
        ELSE IF StartsWith(seg, RM_OPEN) /\ EndsWith(seg, RM_CLOSE)
        THEN Segment(Slice(seg, Len(RM_OPEN), 0 - Len(RM_CLOSE)), "removed")
        ELSE Segment(seg, "plain")

\* stream.py lines 198-219: the styled segments of one line; a blank line
\* has none
StyledLine(raw_line) ==
    IF IsBlank(raw_line) THEN <<>>
    ELSE LET segs == FindAll(raw_line, 0)
         IN  [k \in 1..Len(segs) |-> Styled(segs[k])]

GenPdfCall ==
    /\ pc = "gen_pdf_call"
    /\ raw_lines' = SplitLines(marked)
    /\ line_no' = 1
    /\ styled_segments' = <<>>
    /\ pc' = "gen_pdf_loop"
    /\ UNCHANGED <<marked, restOfRender>>

GenPdfLine ==
    /\ pc = "gen_pdf_loop"
    /\ line_no <= Len(raw_lines)
    /\ styled_segments' = Append(styled_segments, StyledLine(raw_lines[line_no]))
    /\ line_no' = line_no + 1
    /\ UNCHANGED <<pc, marked, raw_lines, restOfRender>>

GenPdfDone ==
    /\ pc = "gen_pdf_loop"
    /\ line_no > Len(raw_lines)
    /\ pc' = "gen_pdf_done"
    /\ UNCHANGED <<renderVars, restOfRender>>

\* re.split(r"(<<HIGHLIGHT>>.*?<</HIGHLIGHT>>)", s) from the place p on: the
\* text before each match and the match, in turn, then the rest
RECURSIVE SplitFrom(_, _)
SplitFrom(s, p) ==
    LET at == Find(s, HL_OPEN, p)
        to == IF at = -1 THEN -1 ELSE PairEnd(s, at, HL_OPEN, HL_CLOSE)
    IN  IF to = -1 THEN <<Slice(s, p, Len(s))>>
        ELSE <<Slice(s, p, at), Slice(s, at, to)>> \o SplitFrom(s, to)

\* save_pdf lines 173-177: the colour and the text of one piece
Coloured(seg) ==
    IF Contains(seg, HL_OPEN)
    THEN Segment(StrReplace(StrReplace(seg, HL_OPEN, <<>>), HL_CLOSE, <<>>), "red")
    ELSE Segment(seg, "black")

\* save_pdf lines 171-177: the pieces of one line
ColouredLine(line) ==
    LET segments == SplitFrom(line, 0)
    IN  [k \in 1..Len(segments) |-> Coloured(segments[k])]

SavePdfCall ==
    /\ pc = "save_pdf_call"
    /\ raw_lines' = SplitLines(marked)
    /\ line_no' = 1
    /\ styled_segments' = <<>>
    /\ pc' = "save_pdf_loop"
    /\ UNCHANGED <<marked, restOfRender>>

SavePdfLine ==
    /\ pc = "save_pdf_loop"
    /\ line_no <= Len(raw_lines)
    /\ styled_segments' = Append(styled_segments, ColouredLine(raw_lines[line_no]))
    /\ line_no' = line_no + 1
    /\ UNCHANGED <<pc, marked, raw_lines, restOfRender>>

SavePdfDone ==
    /\ pc = "save_pdf_loop"
    /\ line_no > Len(raw_lines)
    /\ pc' = "save_pdf_done"
    /\ UNCHANGED <<renderVars, restOfRender>>

\* the pieces marked-up texts are made of
StreamPieces == {UP_OPEN, UP_CLOSE, RM_OPEN, RM_CLOSE, <<"a">>, <<"\n">>, <<"[">>}
TrackerPieces == {HL_OPEN, HL_CLOSE, <<"a">>, <<"\n">>}

\* the texts made of at most MaxPieces of the pieces ps
TextsOf(ps) == {Flat(t) : t \in StringsUpTo(ps, MaxPieces)}

RenderInit ==
    /\ \/ pc = "gen_pdf_call" /\ marked \in TextsOf(StreamPieces)
       \/ pc = "save_pdf_call" /\ marked \in TextsOf(TrackerPieces)
    /\ raw_lines = <<>>
    /\ line_no = 0
    /\ styled_segments = <<>>
    /\ CoreIdle
    /\ contract_text = <<>>
    /\ RiskIdle
    /\ LoadIdle
    /\ DashIdle

RenderNext ==
    \/ GenPdfCall
    \/ GenPdfLine
    \/ GenPdfDone
    \/ SavePdfCall
    \/ SavePdfLine
    \/ SavePdfDone

SpecRender == RenderInit /\ [][RenderNext]_vars

(***************************************************************************)
(* Claims about the renderers                                               *)
(***************************************************************************)
\* the marker pairs each renderer knows, with the style it gives them
StreamMarkers ==
    << [open |-> UP_OPEN, close |-> UP_CLOSE, style |-> "updated"],
       [open |-> RM_OPEN, close |-> RM_CLOSE, style |-> "removed"] >>
TrackerMarkers == << [open |-> HL_OPEN, close |-> HL_CLOSE, style |-> "red"] >>

MarkersOf(at) ==
    IF at \in {"gen_pdf_call", "gen_pdf_loop", "gen_pdf_done"}
    THEN StreamMarkers ELSE TrackerMarkers

\* s without the marker tokens ms[1..k]
RECURSIVE Unmarked(_, _, _)
Unmarked(s, ms, k) ==
    IF k = 0 THEN s
    ELSE Substituted(Substituted(Unmarked(s, ms, k - 1), ms[k].open, <<>>),
                     ms[k].close, <<>>)

\* a marker token of ms occurs in s
HasToken(s, ms) ==
    \E k \in 1..Len(ms) : Occurs(s, ms[k].open) \/ Occurs(s, ms[k].close)

\* the well-formed pairs of s: an opening token at p, its closing token at q,
\* and no marker token in between
WellFormedPairs(s, ms) ==
    { Segment(SubSeq(s, p + Len(ms[k].open), q - 1), ms[k].style) :
        <<k, p, q>> \in
            { t \in (1..Len(ms)) \X (1..Len(s)) \X (1..Len(s)) :
                /\ OccursAt(s, ms[t[1]].open, t[2])
                /\ t[3] >= t[2] + Len(ms[t[1]].open)
                /\ OccursAt(s, ms[t[1]].close, t[3])
                /\ ~HasToken(SubSeq(s, t[2] + Len(ms[t[1]].open), t[3] - 1), ms) } }

\* the segments of all the lines, in the order they were made
AllSegments == Flat(styled_segments)
SegmentTexts == Flat([k \in 1..Len(AllSegments) |-> AllSegments[k].text])

WithoutBreaks(s) == SelectSeq(s, LAMBDA c : c # "\n")

\* C11: the segments a renderer makes of any text are such that every
\* well-formed marker pair is one styled segment holding the whole marked
\* span, also when the span holds a line break, and the texts of the
\* segments joined are the input without its marker tokens (line breaks,
\* which separate the lines, apart): no character is dropped.
C11_Tokenized ==
    pc \in {"gen_pdf_done", "save_pdf_done"} =>
        /\ \A pair \in WellFormedPairs(marked, MarkersOf(pc)) :
              \E k \in 1..Len(AllSegments) : AllSegments[k] = pair
        /\ WithoutBreaks(SegmentTexts)
              = WithoutBreaks(Unmarked(marked, MarkersOf(pc), Len(MarkersOf(pc))))

\* the contents wrapped in markers that the marked-up texts of the model hold
Contents == StringsUpTo({"a", "\n"}, MaxPieces - 2)

\* the segments that hold some text, or are styled
Visible == SelectSeq(AllSegments, LAMBDA g : g.text # <<>> \/ g.style \notin {"plain", "black"})

\* C12: marker round trip: a content c wrapped in insertion markers, as
\* apply_amendments wraps a new_clause (and as the dashboard's [[UPDATED]]
\* pair wraps an addition), comes out of the renderer as a single highlighted
\* segment whose text is exactly c: no marker residue, no content lost.
C12_RoundTrip ==
    \A c \in Contents :
        /\ (pc = "save_pdf_done" /\ marked = Highlighted(c))
              => Visible = <<Segment(c, "red")>>
        /\ (pc = "gen_pdf_done" /\ marked = UP_OPEN \o c \o UP_CLOSE)
              => Visible = <<Segment(c, "updated")>>

(***************************************************************************)
(* stream.py calculate_risk and the Risk Dashboard page                     *)
(***************************************************************************)
\* the longest contract text, in words
MaxWords == 4

UpperCase == <<"A", "B", "C", "D", "E", "F", "G", "H", "I", "J", "K", "L", "M",
               "N", "O", "P", "Q", "R", "S", "T", "U", "V", "W", "X", "Y", "Z">>
LowerCase == <<"a", "b", "c", "d", "e", "f", "g", "h", "i", "j", "k", "l", "m",
               "n", "o", "p", "q", "r", "s", "t", "u", "v", "w", "x", "y", "z">>

\* str.lower(), for texts of ASCII letters: a capital becomes its small letter
\* a lower() that leaves capitals as they are
LowerNone(s) == s

LowerOf ==
    [c \in {UpperCase[n] : n \in 1..26} |->
        LowerCase[CHOOSE n \in 1..26 : UpperCase[n] = c]]

Lower(s) ==
    [k \in 1..Len(s) |-> IF s[k] \in DOMAIN LowerOf THEN LowerOf[s[k]] ELSE s[k]]

\* the keywords of the rules, lines 89-98
KW_TERMINATION ==
    <<"t", "e", "r", "m", "i", "n", "a", "t", "i", "o", "n">>
KW_LIABILITY ==
    <<"l", "i", "a", "b", "i", "l", "i", "t", "y">>
KW_INDEMN ==
    <<"i", "n", "d", "e", "m", "n">>
KW_GDPR ==
    <<"g", "d", "p", "r">>
KW_PERSONAL_DATA ==
    <<"p", "e", "r", "s", "o", "n", "a", "l", " ", "d", "a", "t", "a">>
KW_DATA_PROTECTION ==
    <<"d", "a", "t", "a", " ", "p", "r", "o", "t", "e", "c", "t", "i", "o", "n">>
KW_PRIVACY ==
    <<"p", "r", "i", "v", "a", "c", "y">>

\* the weights of the rules, lines 90-99, and the reasons, lines 91-100
W_TERMINATION == 20
W_LIABILITY == 25
W_INDEMN == 20
W_GDPR == 15
REASON_TERMINATION == "Termination clause may cause contract imbalance."
REASON_LIABILITY == "Liability clause requires review."
REASON_INDEMN == "Indemnification clause contains high-risk terms."
REASON_GDPR == "Missing explicit GDPR/compliance section."

\* a rule that puts its reason before the earlier ones
RulePrepending(acc, holds, weight, reason) ==
    IF holds
    THEN [score |-> acc.score + weight, risks |-> <<reason>> \o acc.risks]
    ELSE acc

\* one rule of calculate_risk: when its condition holds, its weight is added
\* to the score and its reason appended to the reasons
Rule(acc, holds, weight, reason) ==
    IF holds
    THEN [score |-> acc.score + weight, risks |-> Append(acc.risks, reason)]
    ELSE acc

\* line 98: any(word in low_text for word in [...])
AnyPrivacyWord(low_text) ==
    \/ Contains(low_text, KW_PERSONAL_DATA)
    \/ Contains(low_text, KW_DATA_PROTECTION)
    \/ Contains(low_text, KW_PRIVACY)

\* calculate_risk(t), lines 84-101: the rules in their order
CalculateRisk(t) ==
    LET low_text == Lower(t)
        r0 == [score |-> 0, risks |-> <<>>]
        r1 == Rule(r0, Contains(low_text, KW_TERMINATION), W_TERMINATION, REASON_TERMINATION)
        r2 == Rule(r1, Contains(low_text, KW_LIABILITY), W_LIABILITY, REASON_LIABILITY)
        r3 == Rule(r2, Contains(low_text, KW_INDEMN), W_INDEMN, REASON_INDEMN)
        r4 == Rule(r3, ~Contains(low_text, KW_GDPR) /\ AnyPrivacyWord(low_text),
                   W_GDPR, REASON_GDPR)
    IN  r4

\* the Score column of risk_data, lines 366-371
RiskTable(t) ==
    LET low_text == Lower(t)
    IN  << IF Contains(low_text, KW_TERMINATION) THEN 20 ELSE 0,
           IF Contains(low_text, KW_LIABILITY) THEN 25 ELSE 0,
           IF Contains(low_text, KW_INDEMN) THEN 20 ELSE 0,
           IF ~Contains(low_text, KW_GDPR) THEN 15 ELSE 0 >>

\* the Risk Dashboard page without a contract, lines 337-339: a warning
RiskDashboardStop ==
    /\ pc \in {"risk_page", "risk_stopped"}
    /\ contract_text = <<>>
    /\ pc' = "risk_stopped"
    /\ UNCHANGED <<contract_text, riskVars, restOfRisk>>

\* the Risk Dashboard page, lines 341-372; the page runs again on every
\* interaction
RiskDashboardPage ==
    /\ pc \in {"risk_page", "risk_shown"}
    /\ contract_text # <<>>
    /\ LET returned == CalculateRisk(contract_text)
       IN  /\ risk_score' = returned.score
           /\ risks' = returned.risks
    /\ risk_data' = RiskTable(contract_text)
    /\ pc' = "risk_shown"
    /\ UNCHANGED <<contract_text, restOfRisk>>

\* the words contract texts are made of
RiskWords ==
    { <<"T", "e", "r", "m", "i", "n", "a", "t", "i", "o", "n">>,
      <<"L", "I", "A", "B", "I", "L", "I", "T", "Y">>,
      <<"i", "n", "d", "e", "m", "n">>,
      <<"G", "D", "P", "R">>,
      <<"p", "e", "r", "s", "o", "n", "a", "l", " ", "d", "a", "t", "a">>,
      <<"D", "a", "t", "a", " ", "P", "r", "o", "t", "e", "c", "t", "i", "o", "n">>,
      <<"p", "r", "i", "v", "a", "c", "y">>,
      <<"x">> }

RiskInit ==
    /\ pc = "risk_page"
    /\ contract_text \in {Flat(t) : t \in StringsUpTo(RiskWords, MaxWords)}
    /\ RiskIdle
    /\ RenderIdle
    /\ LoadIdle
    /\ DashIdle
    /\ CoreIdle

RiskNext ==
    \/ RiskDashboardStop
    \/ RiskDashboardPage

SpecRisk == RiskInit /\ [][RiskNext]_vars

(***************************************************************************)
(* Claims about the risk heuristic                                          *)
(***************************************************************************)
\* c and d are the same letter, whatever their case
LetterNo ==
    [c \in {UpperCase[n] : n \in 1..26} \cup {LowerCase[n] : n \in 1..26} |->
        CHOOSE n \in 1..26 : c \in {UpperCase[n], LowerCase[n]}]

SameLetter(c, d) ==
    \/ c = d
    \/ c \in DOMAIN LetterNo /\ d \in DOMAIN LetterNo /\ LetterNo[c] = LetterNo[d]

\* the keyword kw occurs in s in some letter case
OccursAnyCase(s, kw) ==
    \E p \in 1..(Len(s) - Len(kw) + 1) :
        \A j \in 1..Len(kw) : SameLetter(s[p + j - 1], kw[j])

\* the conditions of the four rules
Fires(s) ==
    << OccursAnyCase(s, KW_TERMINATION),
       OccursAnyCase(s, KW_LIABILITY),
       OccursAnyCase(s, KW_INDEMN),
       /\ ~OccursAnyCase(s, KW_GDPR)
       /\ \/ OccursAnyCase(s, KW_PERSONAL_DATA)
          \/ OccursAnyCase(s, KW_DATA_PROTECTION)
          \/ OccursAnyCase(s, KW_PRIVACY) >>

Weights == <<20, 25, 20, 15>>
Reasons == <<REASON_TERMINATION, REASON_LIABILITY, REASON_INDEMN, REASON_GDPR>>

\* the weights of the rules that fire, added up, and their reasons in the
\* order of the rules
FiredScore(s) ==
    LET f == Fires(s)
    IN  (IF f[1] THEN Weights[1] ELSE 0) + (IF f[2] THEN Weights[2] ELSE 0)
        + (IF f[3] THEN Weights[3] ELSE 0) + (IF f[4] THEN Weights[4] ELSE 0)
FiredReasons(s) ==
    LET f == Fires(s)
    IN  (IF f[1] THEN <<Reasons[1]>> ELSE <<>>) \o (IF f[2] THEN <<Reasons[2]>> ELSE <<>>)
        \o (IF f[3] THEN <<Reasons[3]>> ELSE <<>>) \o (IF f[4] THEN <<Reasons[4]>> ELSE <<>>)

\* C13: the rules of calculate_risk are independent and additive: the score
\* is the sum of the weights (20 termination, 25 liability, 20 indemn, 15
\* missing GDPR) of exactly the rules whose case-insensitive substring
\* condition holds, the reasons are those of the fired rules in the order of
\* the rules, and a second call on the same text returns the same pair.
C13_Additive ==
    /\ [](pc = "risk_shown" =>
            /\ risk_score = FiredScore(contract_text)
            /\ risks = FiredReasons(contract_text))
    /\ [][(pc = "risk_shown" /\ pc' = "risk_shown" /\ contract_text' = contract_text)
            => (risk_score' = risk_score /\ risks' = risks)]_vars

\* all four rules have fired
C13_Witness ==
    /\ pc = "risk_shown"
    /\ risk_score = 80
    /\ Len(risks) = 4
    /\ contract_text # Lower(contract_text)

\* C14 as stated: a text with "termination" and "liability" in any case and
\* none of "indemn", "gdpr", "personal data" scores 45 with exactly the
\* termination and the liability reason, in that order.
C14_AsStated ==
    ( /\ pc = "risk_shown"
      /\ OccursAnyCase(contract_text, KW_TERMINATION)
      /\ OccursAnyCase(contract_text, KW_LIABILITY)
      /\ ~OccursAnyCase(contract_text, KW_INDEMN)
      /\ ~OccursAnyCase(contract_text, KW_GDPR)
      /\ ~OccursAnyCase(contract_text, KW_PERSONAL_DATA) )
    => (risk_score = 45 /\ risks = <<REASON_TERMINATION, REASON_LIABILITY>>)

\* the text of the example, with the other two privacy words excluded too
PlainExample ==
    /\ pc = "risk_shown"
    /\ OccursAnyCase(contract_text, KW_TERMINATION)
    /\ OccursAnyCase(contract_text, KW_LIABILITY)
    /\ ~OccursAnyCase(contract_text, KW_INDEMN)
    /\ ~OccursAnyCase(contract_text, KW_GDPR)
    /\ ~OccursAnyCase(contract_text, KW_PERSONAL_DATA)
    /\ ~OccursAnyCase(contract_text, KW_DATA_PROTECTION)
    /\ ~OccursAnyCase(contract_text, KW_PRIVACY)

\* C14, amended: a text with "termination" and "liability" in any case and
\* none of "indemn", "gdpr", "personal data", "data protection", "privacy"
\* scores 45 with exactly the termination and the liability reason, in that
\* order.
C14_Example ==
    PlainExample => (risk_score = 45 /\ risks = <<REASON_TERMINATION, REASON_LIABILITY>>)

\* the example, its keywords not in lower case
C14_Witness ==
    /\ PlainExample
    /\ ~Occurs(contract_text, KW_TERMINATION)
    /\ ~Occurs(contract_text, KW_LIABILITY)

\* the sum of a list of numbers
RECURSIVE Sum(_)
Sum(ns) == IF ns = <<>> THEN 0 ELSE Head(ns) + Sum(Tail(ns))

\* C19: on the Risk Dashboard the scores of the risk table (Termination,
\* Liability, Indemnification, Missing GDPR) add up to the Risk Score that
\* calculate_risk returned for the same text, and a rule has a score other
\* than zero in the table exactly when calculate_risk gave its reason.
C19_TableSum ==
    pc = "risk_shown" =>
        /\ Sum(risk_data) = risk_score
        /\ \A k \in 1..4 :
              risk_data[k] # 0 <=> \E r \in 1..Len(risks) : risks[r] = Reasons[k]

(***************************************************************************)
(* The document loaders: main.py load_documents, regulaai_rag.py            *)
(* load_documents, regulatory_update_tracker.py load_docs.                  *)
(* A file is its suffix and what reading it meets: "ok"; "decode", bytes    *)
(* that are not UTF-8; "io", a file that cannot be opened or read;          *)
(* "corrupt", a PDF that does not parse; "encrypted", a PDF that needs a    *)
(* password.                                                                *)
(***************************************************************************)
\* the most files in the document folder
MaxFiles == 3

\* the folder and its files in the order iterdir() gives them; a folder that
\* is not there
Folder(files) == [exists |-> TRUE, files |-> files]
NoFolder == [exists |-> FALSE, files |-> <<>>]

File(suffix, state) == [suffix |-> suffix, state |-> state]

FileKinds ==
    { File(".txt", "ok"), File(".txt", "decode"), File(".txt", "io"),
      File(".pdf", "ok"), File(".pdf", "corrupt"), File(".pdf", "encrypted"),
      File(".pdf", "io"), File(".md", "ok"), File(".doc", "ok") }

Folders == {Folder(fs) : fs \in StringsUpTo(FileKinds, MaxFiles)}

\* the name of the p-th file of the folder, and the text read from it
NameOf(p) == <<"file", p>>
TextOf(p) == <<"text of file", p>>

\* main.py line 60: p.read_text(encoding="utf-8", errors="ignore") raises
\* when the file cannot be read; bytes that do not decode are left out
MainReadTextRaises(f) == f.state = "io"

\* main.py extract_text_from_pdf, lines 44-54: PdfReader(str(path)) and
\* reader.pages are outside the try, which covers page.extract_text() only
MainPdfRaises(f) == f.state \in {"io", "corrupt", "encrypted"}

\* regulaai_rag.py line 27: p.read_text(encoding="utf-8"), strict decoding
RagReadTextRaises(f) == f.state \in {"io", "decode"}

\* the loaders of the tracker, PyPDFLoader(...).load() and
\* TextLoader(..., encoding="utf-8").load(), raise on any file not "ok"
TrackerLoadRaises(f) == f.state # "ok"

\* main.py load_documents, line 58: DATA_DIR.iterdir()
MainLoadCall ==
    /\ pc = "main_load_call"
    /\ pc' = IF folder = NoFolder THEN "main_load_error" ELSE "main_load_loop"
    /\ next_p' = 1
    /\ texts' = <<>>
    /\ sources' = <<>>
    /\ UNCHANGED <<folder, restOfLoad>>

\* main.py load_documents, lines 58-64: one file; an exception leaves the
\* function
MainLoadStep ==
    /\ pc = "main_load_loop"
    /\ next_p <= Len(folder.files)
    /\ LET f == folder.files[next_p]
       IN  IF f.suffix = ".txt"
           THEN IF MainReadTextRaises(f)
                THEN pc' = "main_load_error" /\ UNCHANGED <<next_p, texts, sources>>
                ELSE /\ texts' = Append(texts, TextOf(next_p))
                     /\ sources' = Append(sources, NameOf(next_p))
                     /\ next_p' = next_p + 1
                     /\ pc' = pc
           ELSE IF f.suffix = ".pdf"
           THEN IF MainPdfRaises(f)
                THEN pc' = "main_load_error" /\ UNCHANGED <<next_p, texts, sources>>
                ELSE /\ texts' = Append(texts, TextOf(next_p))
                     /\ sources' = Append(sources, NameOf(next_p))
                     /\ next_p' = next_p + 1
                     /\ pc' = pc
           ELSE /\ next_p' = next_p + 1
                /\ UNCHANGED <<pc, texts, sources>>
    /\ UNCHANGED <<folder, restOfLoad>>

\* main.py load_documents, line 65
MainLoadReturn ==
    /\ pc = "main_load_loop"
    /\ next_p > Len(folder.files)
    /\ pc' = "main_load_done"
    /\ UNCHANGED <<loadVars, restOfLoad>>

\* regulaai_rag.py load_documents, lines 25-26: DOCS_PATH.glob("*.txt") of a
\* folder that is not there gives no file
RagLoadCall ==
    /\ pc = "rag_load_call"
    /\ pc' = "rag_load_loop"
    /\ next_p' = 1
    /\ texts' = <<>>
    /\ UNCHANGED <<folder, sources, restOfLoad>>

\* regulaai_rag.py load_documents, lines 26-27: one file of the folder; the
\* files that are not *.txt are not in the glob
RagLoadStep ==
    /\ pc = "rag_load_loop"
    /\ folder # NoFolder
    /\ next_p <= Len(folder.files)
    /\ LET f == folder.files[next_p]
       IN  IF f.suffix # ".txt"
           THEN next_p' = next_p + 1 /\ UNCHANGED <<pc, texts>>
           ELSE IF RagReadTextRaises(f)
           THEN pc' = "rag_load_error" /\ UNCHANGED <<next_p, texts>>
           ELSE /\ texts' = Append(texts, TextOf(next_p))
                /\ next_p' = next_p + 1
                /\ pc' = pc
    /\ UNCHANGED <<folder, sources, restOfLoad>>

\* regulaai_rag.py load_documents, line 28
RagLoadReturn ==
    /\ pc = "rag_load_loop"
    /\ folder = NoFolder \/ next_p > Len(folder.files)
    /\ pc' = "rag_load_done"
    /\ UNCHANGED <<loadVars, restOfLoad>>

\* regulatory_update_tracker.py load_docs, lines 46-48
TrackerLoadCall ==
    /\ pc = "tracker_load_call"
    /\ pc' = IF folder = NoFolder THEN "tracker_load_error" ELSE "tracker_load_loop"
    /\ next_p' = 1
    /\ texts' = <<>>
    /\ UNCHANGED <<folder, sources, restOfLoad>>

\* regulatory_update_tracker.py load_docs, lines 50-57: one file; an
\* exception is caught, a warning printed, and the loop goes on
TrackerLoadStep ==
    /\ pc = "tracker_load_loop"
    /\ next_p <= Len(folder.files)
    /\ LET f == folder.files[next_p]
       IN  IF f.suffix \in {".pdf", ".txt", ".md"} /\ ~TrackerLoadRaises(f)
           THEN texts' = Append(texts, TextOf(next_p))
           ELSE texts' = texts
    /\ next_p' = next_p + 1
    /\ UNCHANGED <<pc, folder, sources, restOfLoad>>

\* regulatory_update_tracker.py load_docs, line 58
TrackerLoadReturn ==
    /\ pc = "tracker_load_loop"
    /\ next_p > Len(folder.files)
    /\ pc' = "tracker_load_done"
    /\ UNCHANGED <<loadVars, restOfLoad>>

LoadInit ==
    /\ pc \in {"main_load_call", "rag_load_call", "tracker_load_call"}
    /\ folder \in Folders \cup {NoFolder}
    /\ next_p = 0
    /\ texts = <<>>
    /\ sources = <<>>
    /\ RenderIdle
    /\ contract_text = <<>>
    /\ RiskIdle
    /\ DashIdle
    /\ CoreIdle

LoadNext ==
    \/ MainLoadCall
    \/ MainLoadStep
    \/ MainLoadReturn
    \/ RagLoadCall
    \/ RagLoadStep
    \/ RagLoadReturn
    \/ TrackerLoadCall
    \/ TrackerLoadStep
    \/ TrackerLoadReturn

SpecLoad == LoadInit /\ [][LoadNext]_vars

(***************************************************************************)
(* Claims about the loaders                                                 *)
(***************************************************************************)
\* the suffixes each loader reads
Supported(at) ==
    IF at \in {"main_load_done", "main_load_error"} THEN {".txt", ".pdf"}
    ELSE IF at \in {"rag_load_done", "rag_load_error"} THEN {".txt"}
    ELSE {".txt", ".md", ".pdf"}

\* the texts of the readable files of the folder that the loader reads, in
\* the order of the folder
ReadableTexts(at) ==
    LET ps == SelectSeq([p \in 1..Len(folder.files) |-> p],
                        LAMBDA p : /\ folder.files[p].suffix \in Supported(at)
                                   /\ folder.files[p].state = "ok")
    IN  [k \in 1..Len(ps) |-> TextOf(ps[k])]

\* C15: in every loader a document that is unreadable, corrupt or encrypted
\* is skipped and loading goes on: when the folder is there, the loader does
\* not end in an exception, and it returns the text of every readable
\* document of the folder.
C15_SkipsUnreadable ==
    folder # NoFolder =>
        /\ pc \notin {"main_load_error", "rag_load_error", "tracker_load_error"}
        /\ pc \in {"main_load_done", "rag_load_done", "tracker_load_done"}
              => \A k \in 1..Len(ReadableTexts(pc)) :
                    \E j \in 1..Len(texts) : texts[j] = ReadableTexts(pc)[k]

(***************************************************************************)
(* The dashboard, stream.py: the session state and the pages that write it. *)
(* Every action is one run of the script, for one interaction of the user.  *)
(* The characters outside ASCII are written by their names.                 *)
(***************************************************************************)
\* the most pages of an uploaded PDF
MaxPages == 1

LIMIT_CHARS == 16000

\* line 61: f"❌ Error reading PDF: {e}", without e
ERROR_READING ==
    <<"CROSS MARK", " ", "E", "r", "r", "o", "r", " ", "r", "e", "a", "d",
      "i", "n", "g", " ", "P", "D", "F", ":", " ">>
\* line 67
ERROR_ENCRYPTED ==
    <<"WARNING SIGN", "VARIATION SELECTOR-16", " ", "P", "D", "F", " ",
      "i", "s", " ", "e", "n", "c", "r", "y", "p", "t", "e", "d", " ", "a",
      "n", "d", " ", "c", "a", "n", "n", "o", "t", " ", "b", "e", " ", "p",
      "r", "o", "c", "e", "s", "s", "e", "d", " ", "w", "i", "t", "h", "o",
      "u", "t", " ", "a", " ", "p", "a", "s", "s", "w", "o", "r", "d", ".">>
\* line 158: f"AI Error: {e}", without e
AI_ERROR ==
    <<"A", "I", " ", "E", "r", "r", "o", "r", ":", " ">>

\* the text of an exception
Exceptions == {<<"e">>}

\* what page.extract_text() gives for a page with no text, or raising
NoContent == <<>>

\* an uploaded PDF: "ok"; "corrupt", PdfReader raises; "encrypted", the PDF
\* needs a password and decrypt("") raises; "locked", it needs a password
\* and decrypt("") returns without decrypting, so that reader.pages raises
Pdf(state, pages) == [state |-> state, pages |-> pages]

Uploads ==
    {Pdf("ok", ps) : ps \in StringsUpTo({<<"a">>, <<"b">>, NoContent}, MaxPages)}
        \cup {Pdf("corrupt", <<>>), Pdf("encrypted", <<>>), Pdf("locked", <<>>)}

\* lines 69-77: the text of the pages from the k-th on, added to text; the
\* loop ends when text is longer than limit_chars
RECURSIVE PagesText(_, _, _, _)
PagesText(pages, k, acc, limit_chars) ==
    IF k > Len(pages) \/ Len(acc) > limit_chars THEN acc
    ELSE PagesText(pages, k + 1,
                   IF pages[k] # NoContent THEN acc \o pages[k] \o Newline ELSE acc,
                   limit_chars)

\* extract_text_from_pdf, lines 56-79, for the PDFs on which it returns; e
\* is the text of the exception PdfReader raises on a corrupt PDF
ExtractTextFromPdf(uploaded_file, limit_chars, e) ==
    IF uploaded_file.state = "corrupt" THEN ERROR_READING \o e
    ELSE IF uploaded_file.state = "encrypted" THEN ERROR_ENCRYPTED
    ELSE Slice(PagesText(uploaded_file.pages, 1, <<>>, limit_chars), 0, limit_chars)

\* line 322: text.startswith("⚠️") or text.startswith("❌")
IsErrorText(t) ==
    \/ StartsWith(t, <<"WARNING SIGN", "VARIATION SELECTOR-16">>)
    \/ StartsWith(t, <<"CROSS MARK">>)

\* where a run of the script of the dashboard ends
DashPositions ==
    {"dash_start", "dash_uploaded", "dash_upload_error", "dash_exception",
     "dash_generated", "dash_sent", "dash_warning"}

\* the Upload Contract page with a file, lines 313-329; the exception of a
\* locked PDF ends the run of the script before line 320
UploadPage ==
    /\ pc \in DashPositions
    /\ \E uploaded_file \in Uploads, e \in Exceptions :
          IF uploaded_file.state = "locked"
          THEN /\ pc' = "dash_exception"
               /\ UNCHANGED <<contract_text, risk_score, risks>>
          ELSE LET t == ExtractTextFromPdf(uploaded_file, LIMIT_CHARS, e)
               IN  /\ contract_text' = t
                   /\ IF IsErrorText(t)
                      THEN /\ pc' = "dash_upload_error"
                           /\ UNCHANGED <<risk_score, risks>>
                      ELSE /\ pc' = "dash_uploaded"
                           /\ risk_score' = CalculateRisk(t).score
                           /\ risks' = CalculateRisk(t).risks
    /\ UNCHANGED <<risk_data, dashVars, restOfDash>>

\* what the completion may hold for a prompt with the contract t: the
\* contract with an addition marked, or nothing
Completions(t) == {UP_OPEN \o t \o UP_CLOSE, <<>>}

\* ask_groq(prompt), lines 106-158: the content of the completion, or the
\* text of the failure
AskGroq(t) == Completions(t) \cup {AI_ERROR \o e : e \in Exceptions}

ReceiverEmails == {<<>>, <<"r">>}

\* the Amendment System page without a contract, lines 424-427
AmendmentStop ==
    /\ pc \in DashPositions
    /\ contract_text = <<>>
    /\ pc' = "dash_warning"
    /\ UNCHANGED <<contract_text, riskVars, dashVars, restOfDash>>

\* the Amendment System page, "Generate Updated Contract" pressed, lines
\* 424-453
AmendmentGenerate ==
    /\ pc \in DashPositions
    /\ contract_text # <<>>
    /\ LET original_text == contract_text
       IN  /\ \E updated_text \in AskGroq(original_text) :
                 updated_contract' = updated_text
           /\ prompt_contract' = original_text
    /\ pc' = "dash_generated"
    /\ UNCHANGED <<contract_text, riskVars, sent, restOfDash>>

\* the Amendment System page, "Send Updated Contract PDF" pressed, lines
\* 424-484: the e-mail is made of the PDF of updated_contract
AmendmentSend ==
    /\ pc \in DashPositions
    /\ contract_text # <<>>
    /\ \E receiver_email \in ReceiverEmails :
          IF receiver_email = <<>> \/ updated_contract = <<>>
          THEN /\ pc' = "dash_warning"
               /\ UNCHANGED sent
          ELSE /\ sent' = [to |-> receiver_email, body |-> updated_contract]
               /\ pc' = "dash_sent"
    /\ UNCHANGED <<contract_text, riskVars, updated_contract, prompt_contract, restOfDash>>

\* lines 44-51: the session state of a new session
DashInit ==
    /\ pc = "dash_start"
    /\ contract_text = <<>>
    /\ updated_contract = <<>>
    /\ prompt_contract = <<>>
    /\ sent = NoMail
    /\ RiskIdle
    /\ RenderIdle
    /\ LoadIdle
    /\ CoreIdle

DashNext ==
    \/ UploadPage
    \/ AmendmentStop
    \/ AmendmentGenerate
    \/ AmendmentSend

SpecDash == DashInit /\ [][DashNext]_vars

(***************************************************************************)
(* Claims about the dashboard                                               *)
(***************************************************************************)
\* t is the text of a failure
IsFailureText(t) ==
    \/ \E e \in Exceptions : t = ERROR_READING \o e
    \/ t = ERROR_ENCRYPTED
    \/ \E e \in Exceptions : t = AI_ERROR \o e

\* C16: a failed operation of the dashboard is shown as a message and never
\* kept as data: after an upload whose extraction fails, or a completion
\* call that fails, neither contract_text nor updated_contract holds the
\* text of the failure.
C16_NoErrorAsData ==
    /\ ~IsFailureText(contract_text)
    /\ ~IsFailureText(updated_contract)

\* C20: after any visits, uploads and button presses, an updated_contract
\* that is not empty was made from the contract now in contract_text, an
\* e-mail has a receiver and a body that is not empty, and the body of an
\* e-mail just made is the updated contract of the current contract.
C20_Fresh ==
    /\ updated_contract # <<>> => prompt_contract = contract_text
    /\ sent # NoMail => (sent.to # <<>> /\ sent.body # <<>>)
    /\ pc = "dash_sent" => (sent.body = updated_contract /\ prompt_contract = contract_text)

(***************************************************************************)
(* Claims about the generate & apply round of main()                        *)
(***************************************************************************)
\* C18: for every output of the LLM, what extract_json returns is a list
\* whose elements are amendment records, so that apply_amendments on it
\* never raises, also when the output is valid JSON that is no array of
\* objects (a bare object, a scalar, an array of scalars).
C18_ListOfRecords ==
    /\ pc = "main_generated" =>
          /\ parsed.kind = "list"
          /\ \A k \in 1..Len(parsed.items) : parsed.items[k].kind = "dict"
    /\ pc # "apply_error"

\* the positions of the opening and of the closing tokens of s
Opens(s) == {p \in 1..Len(s) : OccursAt(s, HL_OPEN, p)}
Closes(s) == {p \in 1..Len(s) : OccursAt(s, HL_CLOSE, p)}

\* the opening token at p and the closing token at q of s are a pair: no
\* other token lies between them
IsPair(s, p, q) ==
    /\ p \in Opens(s)
    /\ q \in Closes(s)
    /\ p + Len(HL_OPEN) <= q
    /\ \A m \in Opens(s) \cup Closes(s) : ~(p < m /\ m < q)

\* the markers of s are well formed, and what they mark is one of news:
\* every opening token has its closing token, every closing token its
\* opening token, no pair lies inside another, and outside the tokens there
\* are only characters of documents (no piece of a token)
WellFormed(s, news) ==
    /\ \A p \in Opens(s) :
          \E q \in Closes(s) :
              /\ IsPair(s, p, q)
              /\ SubSeq(s, p + Len(HL_OPEN), q - 1) \in news
    /\ \A q \in Closes(s) : \E p \in Opens(s) : IsPair(s, p, q)
    /\ \A m \in 1..Len(s) :
          \/ s[m] \in DocChars
          \/ \E p \in Opens(s) : p <= m /\ m < p + Len(HL_OPEN)
          \/ \E q \in Closes(s) : q <= m /\ m < q + Len(HL_CLOSE)

\* the new clauses of the amendments es
NewClauses(es) == {NewOf(es[k]) : k \in 1..Len(es)}

\* C17: from a contract without markers, after any amendments applied by
\* apply_amendments, every <<HIGHLIGHT>> of the working text is followed by
\* its <</HIGHLIGHT>>, the pairs are not nested and not truncated, and the
\* text between a pair is the new_clause that was inserted.
C17_WellFormed ==
    (pc \in {"apply_loop", "apply_done"} /\ ~HasToken(text, TrackerMarkers)) =>
        WellFormed(updated, NewClauses(amendments))

(***************************************************************************)
(* All the operations together                                              *)
(***************************************************************************)
Init ==
    \/ ChunkInit
    \/ AskInit
    \/ AmendInit
    \/ MainInit
    \/ RenderInit
    \/ RiskInit
    \/ LoadInit
    \/ DashInit

Next ==
    \/ ChunkNext
    \/ AskNext
    \/ AmendNext
    \/ MainNext
    \/ RenderNext
    \/ RiskNext
    \/ LoadNext
    \/ DashNext

Spec == Init /\ [][Next]_vars

====
